---------------------------- MODULE Spec2Model ----------------------------
(***************************************************************************)
(* A model of solve_timetable_debug (src/solver3.py): the construction of  *)
(* the soft-constrained timetable model, the external solve, the report of *)
(* the violated constraints and the extraction of the timetable.           *)
(*                                                                         *)
(* One behaviour is one invocation.  pc follows the body of the function:  *)
(*   "start" -Build-> "built" -Solve-> "solved" -ReportStep-> "report"     *)
(*   (one step per slack variable) -Extract-> "returned", with             *)
(*   "nosolution" (return None) and "fault" (an uncaught KeyError) as the  *)
(*   other two ends.                                                       *)
(*                                                                         *)
(* The solver's assignment.  Solve fixes the status and the set of         *)
(* decision variables that are 1.  Every slack variable occurs in exactly  *)
(* one constraint, so, given that set, the slack values of the feasible    *)
(* assignments are a product of one range per slack; the code reads each   *)
(* slack exactly once, in the report loop (line 112).  The value is        *)
(* therefore drawn where it is read: ReportStep takes any value the        *)
(* solver's assignment can hold for that slack.  The runs are those of an  *)
(* assignment fixed whole by Solve, and every feasible assignment is one   *)
(* of them.                                                                *)
(***************************************************************************)
EXTENDS Integers, Sequences, FiniteSets, TLC

VARIABLES
    pc,          \* position in the body of solve_timetable_debug
    input,       \* the arguments of the call
    x,           \* keys of the dict x: the decision variables created
    model,       \* the constraints added to the CpModel, in order
    slack_vars,  \* the list slack_vars, parallel to model
    status,      \* what solver.Solve returned
    solution,    \* the solver's assignment: [x |-> the decision variables that are 1]
    cursor,      \* how many entries of slack_vars the report loop has visited
    val,         \* the value read for the slack variable visited last
    line,        \* the violation line printed for it, or NoLine
    result,      \* what the call returned: nothing yet, None or the table
    fault        \* the exception that ended the call, or NoFault

vars == <<pc, input, x, model, slack_vars, status, solution, cursor, val, line,
         result, fault>>

(***************************************************************************)
(* Program constants.                                                      *)
(***************************************************************************)
days == <<"Mon", "Tue", "Wed", "Thu", "Fri">>
slots == <<1, 2, 3, 4, 5>>

SubjectSlackMax == 10
BatchSlackMax == 1
RoomSlackMax == 1
TeacherWeekSlackMax == 20
TeacherDaySlackMax == 5
FixedSlackMax == 1
DefaultMaxClassesPerDay == 5

OkStatuses == {"OPTIMAL", "FEASIBLE"}

NoFault == [kind |-> "none", at |-> "none", key |-> <<>>]
NoSolutionValue == [x |-> {}]
NoLine == [kind |-> "none", who |-> "none", when |-> <<>>, slack |-> 0]

(***************************************************************************)
(* Generic helpers.                                                        *)
(***************************************************************************)
Range(f) == {f[i] : i \in DOMAIN f}

Max(a, b) == IF a >= b THEN a ELSE b

RECURSIVE SumSeq(_)
SumSeq(s) == IF s = <<>> THEN 0 ELSE Head(s) + SumSeq(Tail(s))

(***************************************************************************)
(* Strings are compared as Python compares them: code point by code point. *)
(* CodePoints lists the code points of the identifiers the inputs use.     *)
(***************************************************************************)
CodePoints ==
    [str \in {"Mon", "Tue", "Wed", "Thu", "Fri", "Sat", "B1", "B2"} |->
        CASE str = "Mon" -> <<77, 111, 110>>
          [] str = "Tue" -> <<84, 117, 101>>
          [] str = "Wed" -> <<87, 101, 100>>
          [] str = "Thu" -> <<84, 104, 117>>
          [] str = "Fri" -> <<70, 114, 105>>
          [] str = "Sat" -> <<83, 97, 116>>
          [] str = "B1" -> <<66, 49>>
          [] str = "B2" -> <<66, 50>>]

RECURSIVE SeqLess(_, _)
\* lexicographic order of two sequences of code points
SeqLess(a, b) ==
    IF b = <<>> THEN FALSE
    ELSE IF a = <<>> THEN TRUE
    ELSE IF Head(a) # Head(b) THEN Head(a) < Head(b)
    ELSE SeqLess(Tail(a), Tail(b))

StrLess(a, b) == SeqLess(CodePoints[a], CodePoints[b])

(***************************************************************************)
(* Lines 19-26: one decision variable per subject x day x slot x room,     *)
(* keyed by (batch, subj, d, s, r) with batch the subject's own batch.     *)
(* subjects is the dict in insertion order: a sequence of records          *)
(* [name, batch, teacher, sessions_per_week] with distinct names.          *)
(***************************************************************************)
VarKeys(inp) ==
    {<<sub.batch, sub.name, d, s, r>> :
        sub \in Range(inp.subjects), d \in Range(days),
        s \in Range(slots), r \in Range(inp.rooms)}

NumSlots == Len(days) * Len(slots)

\* the i-th (day, slot) pair of "for d in days: for s in slots"
DayOf(i) == days[((i - 1) \div Len(slots)) + 1]
SlotOf(i) == slots[((i - 1) % Len(slots)) + 1]

DayIndex(d) == CHOOSE i \in 1..Len(days) : days[i] = d

(***************************************************************************)
(* A constraint instance with its slack: the sum of the decision variables *)
(* in terms, rel ("eq": lhs + slack == rhs, "le": lhs <= rhs + slack), and *)
(* the slack's tag (kind, who, when) and upper bound ub (lower bound 0).   *)
(* when is the tuple of the parts of the label: <<d, s>> for f"{d}-{s}".   *)
(***************************************************************************)
Instance(terms, rel, rhs, kind, who, when, ub) ==
    [terms |-> terms, rel |-> rel, rhs |-> rhs,
     kind |-> kind, who |-> who, when |-> when, ub |-> ub]

\* Lines 30-36: subject weekly requirements
SubjectInstances(inp) ==
    [i \in 1..Len(inp.subjects) |->
        LET sub == inp.subjects[i] IN
        Instance({<<sub.batch, sub.name, d, s, r>> :
                      d \in Range(days), s \in Range(slots), r \in Range(inp.rooms)},
                 "eq", sub.sessions_per_week,
                 "Subject", sub.name, <<sub.batch>>, SubjectSlackMax)]

\* BatchInstances with the sum over the rooms left out: the first room only
BatchInstancesFirstRoom(inp) ==
    [i \in 1..(Len(inp.batches) * NumSlots) |->
        LET batch == inp.batches[((i - 1) \div NumSlots) + 1]
            j == ((i - 1) % NumSlots) + 1
        IN  Instance({<<batch, sub.name, DayOf(j), SlotOf(j), inp.rooms[1]>> :
                          sub \in {u \in Range(inp.subjects) : u.batch = batch}},
                     "le", 1,
                     "BatchClash", batch, <<DayOf(j), SlotOf(j)>>, BatchSlackMax)]

\* Lines 38-50: batch clash
BatchInstances(inp) ==
    [i \in 1..(Len(inp.batches) * NumSlots) |->
        LET batch == inp.batches[((i - 1) \div NumSlots) + 1]
            j == ((i - 1) % NumSlots) + 1
        IN  Instance({<<batch, sub.name, DayOf(j), SlotOf(j), r>> :
                          sub \in {u \in Range(inp.subjects) : u.batch = batch},
                          r \in Range(inp.rooms)},
                     "le", 1,
                     "BatchClash", batch, <<DayOf(j), SlotOf(j)>>, BatchSlackMax)]

\* Lines 52-61: room clash
RoomInstances(inp) ==
    [i \in 1..(Len(inp.rooms) * NumSlots) |->
        LET r == inp.rooms[((i - 1) \div NumSlots) + 1]
            j == ((i - 1) % NumSlots) + 1
        IN  Instance({<<sub.batch, sub.name, DayOf(j), SlotOf(j), r>> :
                          sub \in Range(inp.subjects)},
                     "le", 1,
                     "RoomClash", r, <<DayOf(j), SlotOf(j)>>, RoomSlackMax)]

\* Lines 63-88: per teacher, the weekly load and then the five daily loads
TeacherInstances(inp) ==
    [i \in 1..(Len(inp.teachers) * (Len(days) + 1)) |->
        LET t == inp.teachers[((i - 1) \div (Len(days) + 1)) + 1]
            j == (i - 1) % (Len(days) + 1)
            mine == {u \in Range(inp.subjects) : u.teacher = t.name}
        IN  IF j = 0
            THEN Instance({<<sub.batch, sub.name, d, s, r>> :
                               sub \in mine, d \in Range(days),
                               s \in Range(slots), r \in Range(inp.rooms)},
                          "le", t.max_load,
                          "TeacherWeek", t.name, <<"All">>, TeacherWeekSlackMax)
            ELSE Instance({<<sub.batch, sub.name, days[j], s, r>> :
                               sub \in mine, s \in Range(slots), r \in Range(inp.rooms)},
                          "le", inp.max_classes_per_day,
                          "TeacherDay", t.name, <<days[j]>>, TeacherDaySlackMax)]

\* Lines 90-96: fixed classes; x[(batch, subj, d, s, r)] is looked up first
FixedInstances(inp) ==
    [i \in 1..Len(inp.fixed_classes) |->
        LET p == inp.fixed_classes[i] IN
        Instance({p}, "eq", 1,
                 "FixedClass", p[1], <<p[2], p[3], p[4]>>, FixedSlackMax)]

\* MissingFixed with the lookup made tolerant (x.get): no entry is missing
MissingFixedIgnored(inp) == {}

\* the indices of the fixed classes that name no decision variable
MissingFixed(inp) ==
    {i \in 1..Len(inp.fixed_classes) : inp.fixed_classes[i] \notin VarKeys(inp)}

\* Lines 28-96: all instances in the order the code adds them
AllInstances(inp) ==
    SubjectInstances(inp) \o BatchInstances(inp) \o RoomInstances(inp)
        \o TeacherInstances(inp) \o FixedInstances(inp)

ConstraintOf(c) == [terms |-> c.terms, rel |-> c.rel, rhs |-> c.rhs]

SlackOf(c) == [kind |-> c.kind, who |-> c.who, when |-> c.when, ub |-> c.ub]

(***************************************************************************)
(* The external solver (lines 101-103).  An assignment gives the set X of  *)
(* decision variables that are 1 and a value for every slack variable.     *)
(* Every slack variable occurs in the one constraint it was made for.      *)
(***************************************************************************)
Count(c, X) == Cardinality(c.terms \cap X)

\* the constraint c holds with slack value v, v within the slack's bounds
Satisfied(c, ub, X, v) ==
    /\ 0 <= v /\ v <= ub
    /\ IF c.rel = "eq" THEN Count(c, X) + v = c.rhs ELSE Count(c, X) <= c.rhs + v

\* the least slack value that satisfies c under X (it may exceed the bound)
MinSlack(c, X) ==
    IF c.rel = "eq" THEN c.rhs - Count(c, X) ELSE Max(0, Count(c, X) - c.rhs)

MinSlacks(m, X) == [i \in 1..Len(m) |-> MinSlack(m[i], X)]

\* some slack values within bounds satisfy every constraint under X
FeasibleX(m, sv, X) ==
    \A i \in 1..Len(m) : Satisfied(m[i], sv[i].ub, X, MinSlack(m[i], X))

RECURSIVE GrowSubsets(_, _)
\* the subsets of S with k elements, for small k
GrowSubsets(S, k) ==
    IF k = 0 THEN {{}}
    ELSE UNION {{T \cup {e} : e \in S \ T} : T \in GrowSubsets(S, k - 1)}

\* the subsets of S with k elements
KSubsets(S, k) ==
    IF k < 0 \/ k > Cardinality(S) THEN {}
    ELSE IF 2 * k > Cardinality(S)
         THEN {S \ T : T \in GrowSubsets(S, Cardinality(S) - k)}
         ELSE GrowSubsets(S, k)

RECURSIVE CandidatesFrom(_, _, _)
(***************************************************************************)
(* The sets X that satisfy the subject equalities i..Len(m) with a slack   *)
(* in bounds: between rhs - ub and rhs of the subject's variables are 1.   *)
(* Every decision variable belongs to exactly one subject equality, so     *)
(* these are all the X that can be feasible.                               *)
(***************************************************************************)
CandidatesFrom(m, sv, i) ==
    IF i > Len(m) THEN {{}}
    ELSE IF sv[i].kind # "Subject" THEN CandidatesFrom(m, sv, i + 1)
    ELSE LET own == UNION {KSubsets(m[i].terms, k) :
                              k \in Max(0, m[i].rhs - sv[i].ub)..m[i].rhs}
             rest == CandidatesFrom(m, sv, i + 1)
         IN  {A \cup B : A \in own, B \in rest}

\* the feasible sets of true decision variables
FeasibleXs(m, sv) == {X \in CandidatesFrom(m, sv, 1) : FeasibleX(m, sv, X)}

\* Objective with the fixed-class slacks left out of the sum
ObjectiveWithoutFixed(sv, vals) ==
    SumSeq([i \in 1..Len(sv) |-> IF sv[i].kind = "FixedClass" THEN 0 ELSE vals[i]])

\* Line 99: the objective, the sum of all slack values
Objective(sv, vals) == SumSeq([i \in 1..Len(sv) |-> vals[i]])


(***************************************************************************)
(* Lines 101-103: what solver.Solve can answer for the model.              *)
(*   OPTIMAL    with an assignment of least objective;                     *)
(*   FEASIBLE   with any assignment satisfying the constraints;            *)
(*   INFEASIBLE when no assignment satisfies them;                         *)
(*   UNKNOWN    when the time limit ends the search with nothing found.    *)
(* The least objective with X is reached with every slack at its least.    *)
(***************************************************************************)
SolverOutcomes(m, sv) ==
    LET scored == {[x |-> X, objective |-> Objective(sv, MinSlacks(m, X))] :
                      X \in FeasibleXs(m, sv)}
        best == CHOOSE b \in {a.objective : a \in scored} :
                    \A a \in scored : b <= a.objective
    IN  {[status |-> "UNKNOWN", solution |-> NoSolutionValue]}
        \cup (IF scored = {}
              THEN {[status |-> "INFEASIBLE", solution |-> NoSolutionValue]}
              ELSE {})
        \cup {[status |-> "OPTIMAL", solution |-> [x |-> a.x]] :
                 a \in {b \in scored : b.objective = best}}
        \cup {[status |-> "FEASIBLE", solution |-> [x |-> a.x]] : a \in scored}

(***************************************************************************)
(* Line 112: the values solver.Value(slack) can give for the slack of      *)
(* constraint c when the solver answered st with X: the least one in an    *)
(* optimal assignment, any one that satisfies c in a feasible one.         *)
(***************************************************************************)
SlackValues(c, ub, st, X) ==
    IF st = "OPTIMAL" THEN {MinSlack(c, X)}
    ELSE {v \in 0..ub : Satisfied(c, ub, X, v)}

\* ViolationLine with the test val >= 0
ViolationLineNonNegative(tag, v) ==
    IF v >= 0
    THEN [kind |-> tag.kind, who |-> tag.who, when |-> tag.when, slack |-> v]
    ELSE NoLine

\* ViolationLine with the test val > 1
ViolationLineAboveOne(tag, v) ==
    IF v > 1
    THEN [kind |-> tag.kind, who |-> tag.who, when |-> tag.when, slack |-> v]
    ELSE NoLine

\* Lines 113-114: the line printed for a slack variable of value v, if any
ViolationLine(tag, v) ==
    IF v > 0
    THEN [kind |-> tag.kind, who |-> tag.who, when |-> tag.when, slack |-> v]
    ELSE NoLine

(***************************************************************************)
(* Lines 116-133: the keys looked up in x, in the order of the loops       *)
(* for d / for s / for batch / for subj / for r.                           *)
(***************************************************************************)
Lookups(inp) ==
    LET nb == Len(inp.batches)
        ns == Len(inp.subjects)
        nr == Len(inp.rooms)
    IN  [i \in 1..(NumSlots * nb * ns * nr) |->
            LET j == ((i - 1) \div (nb * ns * nr)) + 1
                b == (((i - 1) \div (ns * nr)) % nb) + 1
                u == (((i - 1) \div nr) % ns) + 1
                r == ((i - 1) % nr) + 1
            IN  [key |-> <<inp.batches[b], inp.subjects[u].name,
                           DayOf(j), SlotOf(j), inp.rooms[r]>>,
                 teacher |-> inp.subjects[u].teacher]]

\* the lookups x[(batch, subj, d, s, r)] that raise KeyError
MissingLookups(inp, keys) ==
    {i \in 1..Len(Lookups(inp)) : Lookups(inp)[i].key \notin keys}

RECURSIVE RowsFrom(_, _, _)
\* the rows appended to timetable: one per lookup whose variable is 1
RowsFrom(look, X, i) ==
    IF i > Len(look) THEN <<>>
    ELSE (IF look[i].key \in X
          THEN <<[Day |-> look[i].key[3], Slot |-> look[i].key[4],
                  Batch |-> look[i].key[1], Subject |-> look[i].key[2],
                  Teacher |-> look[i].teacher, Room |-> look[i].key[5]]>>
          ELSE <<>>) \o RowsFrom(look, X, i + 1)

(***************************************************************************)
(* Line 136: df.sort_values(["Batch", "Day", "Slot"]).  Batch and Day are  *)
(* columns of strings, Slot a column of integers.  Rows with equal keys    *)
(* keep their order.                                                       *)
(***************************************************************************)
RowLess(a, b) ==
    IF a.Batch # b.Batch THEN StrLess(a.Batch, b.Batch)
    ELSE IF a.Day # b.Day THEN StrLess(a.Day, b.Day)
    ELSE a.Slot < b.Slot

RECURSIVE InsertRow(_, _)
\* row put into the sorted rows after the last one that is not greater
InsertRow(sorted, row) ==
    IF sorted = <<>> THEN <<row>>
    ELSE IF RowLess(row, Head(sorted)) THEN <<row>> \o sorted
    ELSE <<Head(sorted)>> \o InsertRow(Tail(sorted), row)

RECURSIVE SortValues(_)
SortValues(rows) ==
    IF rows = <<>> THEN <<>>
    ELSE InsertRow(SortValues(SubSeq(rows, 1, Len(rows) - 1)), rows[Len(rows)])


(***************************************************************************)
(* The inputs explored: argument lists of solve_timetable_debug (lines     *)
(* 5-12).  Every answer the solver can give for an input is explored, so   *)
(* an input leaves the solver at most MaxSessions sessions to place where  *)
(* it chooses, or so many that all variables of a subject are forced (35   *)
(* in one room, 60 in two) or none will do (36).  The call of lines        *)
(* 140-149 (RefInput: 6 + 6 sessions on 25 cells, more than 10^9 answers   *)
(* of total slack 0 alone) lies beyond MaxSessions and is not one of them: *)
(* no behaviour starts from it.                                            *)
(***************************************************************************)
MaxSessions == 2

Subj(n, b, t, k) == [name |-> n, batch |-> b, teacher |-> t, sessions_per_week |-> k]

InputOf(r, b, u, l, f) ==
    [rooms |-> r, batches |-> b, subjects |-> u,
     teachers |-> <<[name |-> "T1", max_load |-> l.max_load]>>,
     fixed_classes |-> f, max_classes_per_day |-> l.max_classes_per_day]

BatchChoices == {<<"B1">>, <<"B1", "B2">>}

ReferenceLoad == [max_load |-> 12, max_classes_per_day |-> DefaultMaxClassesPerDay]

FullLoad == [max_load |-> 50, max_classes_per_day |-> 10]

LoadChoices ==
    {ReferenceLoad,
     [max_load |-> 0, max_classes_per_day |-> 0],
     [max_load |-> 0, max_classes_per_day |-> DefaultMaxClassesPerDay]}

PinMath == <<"B1", "Math", "Mon", 1, "R1">>
PinPhysics == <<"B1", "Physics", "Mon", 1, "R1">>
PinSat == <<"B1", "Math", "Sat", 1, "R1">>

\* one subject with at most one session or too many, one room; any batches,
\* loads and fixed classes
OneSubjectInputs ==
    {InputOf(<<"R1">>, b, <<Subj("Math", "B1", "T1", k)>>, l, f) :
        b \in BatchChoices, k \in {0, 1, 35, 36}, l \in LoadChoices,
        f \in {<<>>, <<PinMath>>, <<PinMath, PinSat>>, <<PinPhysics>>}}

\* one subject with MaxSessions sessions
MostSessionsInputs ==
    {InputOf(<<"R1">>, <<"B1">>, <<Subj("Math", "B1", "T1", MaxSessions)>>,
             ReferenceLoad, <<>>)}

\* one subject in two rooms, with one session or more than the rooms can hold
TwoRoomInputs ==
    {InputOf(<<"R1", "R2">>, <<"B1">>, <<Subj("Math", "B1", "T1", k)>>, l, <<>>) :
        k \in {1, 60}, l \in {ReferenceLoad, FullLoad}}

\* two subjects of one batch in two rooms, four variables to a (day, slot):
\* Math fills both rooms of every cell, Physics asks for one session more
CrowdedInputs ==
    {InputOf(<<"R1", "R2">>, <<"B1">>,
             <<Subj("Math", "B1", "T1", 60), Subj("Physics", "B1", "T1", 1)>>,
             FullLoad, <<>>)}

TightLoad == [max_load |-> 2, max_classes_per_day |-> DefaultMaxClassesPerDay]

\* two subjects of one batch and one teacher with one session each, a weekly
\* load that the two sessions fill; Math pinned, or both pinned to one slot
PinnedPairInputs ==
    {InputOf(<<"R1">>, <<"B1">>,
             <<Subj("Math", "B1", "T1", 1), Subj("Physics", "B1", "T1", 1)>>,
             TightLoad, f) :
        f \in {<<PinMath>>, <<PinMath, PinPhysics>>}}

Inputs ==
    OneSubjectInputs \cup MostSessionsInputs \cup TwoRoomInputs \cup CrowdedInputs
        \cup PinnedPairInputs

\* Lines 140-149: the arguments of the program's own call (not in Inputs)
RefInput ==
    InputOf(<<"R1">>, <<"B1">>,
            <<Subj("Math", "B1", "T1", 6), Subj("Physics", "B1", "T1", 6)>>,
            ReferenceLoad, <<PinMath>>)

Init ==
    /\ pc = "start"
    /\ input \in Inputs
    /\ x = {}
    /\ model = <<>>
    /\ slack_vars = <<>>
    /\ status = "none"
    /\ solution = NoSolutionValue
    /\ cursor = 0
    /\ val = 0
    /\ line = NoLine
    /\ result = [kind |-> "pending", rows |-> <<>>]
    /\ fault = NoFault

(***************************************************************************)
(* Lines 16-99: the model is built.  The lookup of a fixed class that      *)
(* names no decision variable raises KeyError with the key looked up; the  *)
(* first such entry of fixed_classes ends the call.                        *)
(***************************************************************************)
Build ==
    /\ pc = "start"
    /\ LET missing == MissingFixed(input)
           all == AllInstances(input)
       IN  IF missing = {}
           THEN /\ pc' = "built"
                /\ x' = VarKeys(input)
                /\ model' = [i \in 1..Len(all) |-> ConstraintOf(all[i])]
                /\ slack_vars' = [i \in 1..Len(all) |-> SlackOf(all[i])]
                /\ fault' = fault
           ELSE /\ pc' = "fault"
                /\ fault' = [kind |-> "KeyError", at |-> "build",
                             key |-> input.fixed_classes[
                                         CHOOSE i \in missing : \A j \in missing : i <= j]]
                /\ UNCHANGED <<x, model, slack_vars>>
    /\ UNCHANGED <<input, status, solution, cursor, val, line, result>>

\* Lines 101-103: the solver is run on the model
Solve ==
    /\ pc = "built"
    /\ \E out \in SolverOutcomes(model, slack_vars) :
           /\ status' = out.status
           /\ solution' = out.solution
    /\ pc' = "solved"
    /\ UNCHANGED <<input, x, model, slack_vars, cursor, val, line, result, fault>>

\* Lines 105-107: no solution; None is returned
NoSolution ==
    /\ pc = "solved"
    /\ status \notin OkStatuses
    /\ pc' = "nosolution"
    /\ result' = [kind |-> "None", rows |-> <<>>]
    /\ UNCHANGED <<input, x, model, slack_vars, status, solution, cursor, val, line, fault>>

(***************************************************************************)
(* Lines 109-114: one turn of the loop over slack_vars.  The value of the  *)
(* next slack variable is read and, when positive, its line is printed.    *)
(***************************************************************************)
ReportStep ==
    /\ pc \in {"solved", "report"}
    /\ status \in OkStatuses
    /\ cursor < Len(slack_vars)
    /\ \E v \in SlackValues(model[cursor + 1], slack_vars[cursor + 1].ub,
                            status, solution.x) :
           /\ val' = v
           /\ line' = ViolationLine(slack_vars[cursor + 1], v)
    /\ cursor' = cursor + 1
    /\ pc' = "report"
    /\ UNCHANGED <<input, x, model, slack_vars, status, solution, result, fault>>

(***************************************************************************)
(* Lines 116-136: the timetable is built, made a DataFrame and sorted.     *)
(* A lookup of a key that x does not hold raises KeyError with that key;   *)
(* a DataFrame built from no rows has no columns, and sorting it by        *)
(* "Batch" raises KeyError.                                                *)
(***************************************************************************)
Extract ==
    /\ pc \in {"solved", "report"}
    /\ status \in OkStatuses
    /\ cursor = Len(slack_vars)
    /\ LET missing == MissingLookups(input, x)
           timetable == RowsFrom(Lookups(input), solution.x, 1)
       IN  IF missing # {}
           THEN /\ pc' = "fault"
                /\ fault' = [kind |-> "KeyError", at |-> "extract",
                             key |-> Lookups(input)[
                                         CHOOSE i \in missing : \A j \in missing : i <= j].key]
                /\ result' = result
           ELSE IF timetable = <<>>
           THEN /\ pc' = "fault"
                /\ fault' = [kind |-> "KeyError", at |-> "sort", key |-> <<"Batch">>]
                /\ result' = result
           ELSE /\ pc' = "returned"
                /\ result' = [kind |-> "table", rows |-> SortValues(timetable)]
                /\ fault' = fault
    /\ UNCHANGED <<input, x, model, slack_vars, status, solution, cursor, val, line>>

Next == Build \/ Solve \/ NoSolution \/ ReportStep \/ Extract

Spec == Init /\ [][Next]_vars


(***************************************************************************)
(* Vocabulary of the properties.                                           *)
(***************************************************************************)
\* the solver's assignment was accepted as a solution (line 105)
Accepted == pc \in {"solved", "report", "returned", "fault"} /\ status \in OkStatuses

\* the call is over
Ended == pc \in {"returned", "nosolution", "fault"}

\* the report loop has just visited slack variable cursor
Visiting == pc = "report" /\ cursor >= 1

\* the tuple p names a decision variable of the input
NamesVariable(p) ==
    /\ \E sub \in Range(input.subjects) : sub.batch = p[1] /\ sub.name = p[2]
    /\ p[3] \in Range(days)
    /\ p[4] \in Range(slots)
    /\ p[5] \in Range(input.rooms)

\* the input contract: every fixed class names a decision variable
WellFormed == \A i \in 1..Len(input.fixed_classes) : NamesVariable(input.fixed_classes[i])

\* the slack variables of a kind
OfKind(kind) == {i \in 1..Len(slack_vars) : slack_vars[i].kind = kind}

\* the total slack of the assignment with the variables of X true and every
\* slack at its least
TotalSlack(X) == SumSeq(MinSlacks(model, X))

\* the model has an assignment in which every slack is 0
ZeroSlackExists ==
    \E X \in FeasibleXs(model, slack_vars) : TotalSlack(X) = 0

\* a timetable for the input of lines 140-149: Math in the first cells of the
\* grid, Physics in the cells that follow
RefTimetable ==
    LET math == RefInput.subjects[1]
        physics == RefInput.subjects[2]
    IN  {<<math.batch, math.name, DayOf(j), SlotOf(j), RefInput.rooms[1]>> :
            j \in 1..math.sessions_per_week}
        \cup {<<physics.batch, physics.name, DayOf(j), SlotOf(j), RefInput.rooms[1]>> :
                 j \in (math.sessions_per_week + 1)
                          ..(math.sessions_per_week + physics.sessions_per_week)}

\* the model built from the input of lines 140-149 has an assignment of
\* total slack 0: RefTimetable, with every slack 0
RefModelHasZeroSlack ==
    LET all == AllInstances(RefInput)
        m == [i \in 1..Len(all) |-> ConstraintOf(all[i])]
        sv == [i \in 1..Len(all) |-> SlackOf(all[i])]
    IN  /\ MissingFixed(RefInput) = {}
        /\ RefTimetable \subseteq VarKeys(RefInput)
        /\ FeasibleX(m, sv, RefTimetable)
        /\ SumSeq(MinSlacks(m, RefTimetable)) = 0

\* every lookup of the extraction finds its key and some variable is 1:
\* the extraction of this assignment ends in a returned table
TableAhead ==
    /\ \A b \in Range(input.batches), sub \in Range(input.subjects) : sub.batch = b
    /\ solution.x # {}

\* the classes of batch b at (d, s) in the solver's assignment
ClassesAt(b, d, s) == Cardinality({k \in solution.x : k[1] = b /\ k[3] = d /\ k[4] = s})

(***************************************************************************)
(* C1 (as claimed): every model built from an input that meets the input   *)
(* contract has an assignment, slacks within their bounds, that satisfies  *)
(* all constraints.  The code's slack bounds do not make it so.            *)
(***************************************************************************)
C1_AlwaysFeasible ==
    pc = "built" => FeasibleXs(model, slack_vars) # {}

(***************************************************************************)
(* C2 (as claimed): for a well-formed input the call never ends in a       *)
(* fault: an accepted status ends in a returned table with its columns, any*)
(* other in None with no violation line and no row.                        *)
(***************************************************************************)
C2_TableOrNone ==
    (WellFormed /\ Ended) =>
        \/ status \in OkStatuses /\ pc = "returned" /\ result.kind = "table"
        \/ /\ status \notin OkStatuses /\ pc = "nosolution"
           /\ result.kind = "None" /\ result.rows = <<>>
           /\ cursor = 0 /\ line = NoLine

(***************************************************************************)
(* C3 (as claimed): once an accepted assignment has been extracted, the    *)
(* table holds exactly one row for each decision variable that is true,    *)
(* with its day, slot, batch, subject, room and the subject's teacher.     *)
(* Stated for the assignments with a true variable; the table of no rows   *)
(* is C2's case.                                                           *)
(***************************************************************************)
C3_RowPerTrueVariable ==
    (Accepted /\ Ended /\ solution.x # {}) =>
        /\ result.kind = "table"
        /\ \A k \in x :
              Cardinality({j \in 1..Len(result.rows) :
                              <<result.rows[j].Batch, result.rows[j].Subject,
                                result.rows[j].Day, result.rows[j].Slot,
                                result.rows[j].Room>> = k})
                  = (IF k \in solution.x THEN 1 ELSE 0)
        /\ \A j \in 1..Len(result.rows) :
              \E sub \in Range(input.subjects) :
                  /\ sub.name = result.rows[j].Subject
                  /\ sub.batch = result.rows[j].Batch
                  /\ sub.teacher = result.rows[j].Teacher
                  /\ <<sub.batch, sub.name, result.rows[j].Day,
                       result.rows[j].Slot, result.rows[j].Room>> \in solution.x

(***************************************************************************)
(* C4 (as claimed): in a solution of least total slack a fixed class is    *)
(* dropped (its pinned variable 0, its slack read as 1) only when no       *)
(* assignment satisfying the constraints has its pinned variable true.     *)
(***************************************************************************)
C4_PinDroppedOnlyIfImpossible ==
    (Visiting /\ status = "OPTIMAL" /\ slack_vars[cursor].kind = "FixedClass") =>
        ((model[cursor].terms \cap solution.x = {} \/ val # 0) =>
            ~ \E X \in FeasibleXs(model, slack_vars) : model[cursor].terms \subseteq X)

(***************************************************************************)
(* C4 (amended): in a solution of least total slack a fixed class is       *)
(* dropped (pinned variable 0, slack 1) only when no assignment that       *)
(* honours it has less total slack than the best assignment that drops it, *)
(* and so never when the model has an assignment of total slack 0; when    *)
(* some assignment that honours it has less total slack than every         *)
(* assignment that drops it, the pinned variable is true and the slack 0.  *)
(***************************************************************************)
C4_PinDroppedOnlyIfNoCheaper ==
    (Visiting /\ status = "OPTIMAL" /\ slack_vars[cursor].kind = "FixedClass") =>
        LET pin == model[cursor].terms
            feasible == FeasibleXs(model, slack_vars)
            keep == {X \in feasible : pin \subseteq X}
            drop == feasible \ keep
        IN  /\ (pin \cap solution.x = {} \/ val # 0) =>
                  /\ pin \cap solution.x = {} /\ val = 1
                  /\ \A Y \in keep : \E Z \in drop : TotalSlack(Z) <= TotalSlack(Y)
                  /\ ~ ZeroSlackExists
            /\ (\E Y \in keep : \A Z \in drop : TotalSlack(Y) < TotalSlack(Z)) =>
                  pin \subseteq solution.x /\ val = 0

\* a fixed class honoured at the price of other slack, where dropping it costs more
C4_Witness ==
    /\ Visiting /\ status = "OPTIMAL" /\ slack_vars[cursor].kind = "FixedClass"
    /\ model[cursor].terms \subseteq solution.x
    /\ val = 0
    /\ TotalSlack(solution.x) = 1
    /\ \E Z \in FeasibleXs(model, slack_vars) : model[cursor].terms \cap Z = {}

(***************************************************************************)
(* C5 (as claimed): whenever the model has an assignment of total slack 0  *)
(* and a table is returned, every slack of the returned assignment is 0    *)
(* and no violation line is printed, whatever the accepted status.  The    *)
(* report precedes the extraction, so it is stated where a slack is read   *)
(* in a run whose extraction returns a table.                              *)
(***************************************************************************)
C5_ZeroSlackReturned ==
    (Visiting /\ TableAhead /\ (val # 0 \/ line # NoLine)) => ~ ZeroSlackExists

(***************************************************************************)
(* C5 (amended): whenever the model has an assignment of total slack 0 and *)
(* a table is returned with status OPTIMAL, every slack of the returned    *)
(* assignment is 0 and no violation line is printed.  The model built from *)
(* the arguments of lines 140-149 has an assignment of total slack 0 (its  *)
(* runs are beyond MaxSessions and are not explored).                      *)
(***************************************************************************)
C5_ZeroSlackReturnedWhenOptimal ==
    /\ (Visiting /\ status = "OPTIMAL" /\ TableAhead /\ (val # 0 \/ line # NoLine)) =>
          ~ ZeroSlackExists
    /\ pc = "start" => RefModelHasZeroSlack

\* two subjects, one of them pinned: the two rows are returned after an
\* optimal answer with every slack 0
C5_Witness ==
    /\ input \in PinnedPairInputs /\ Len(input.fixed_classes) = 1
    /\ pc = "returned" /\ status = "OPTIMAL"
    /\ Len(result.rows) = 2
    /\ cursor = Len(slack_vars)
    /\ TotalSlack(solution.x) = 0
    /\ line = NoLine

(***************************************************************************)
(* C6: when a fixed class names no decision variable, the call fails while *)
(* the model is built, before the solver is run, with a KeyError that      *)
(* carries the first such tuple; nothing is printed and nothing returned.  *)
(***************************************************************************)
C6_MissingPinFailsFast ==
    ~ WellFormed =>
        /\ pc \in {"start", "fault"}
        /\ status = "none" /\ cursor = 0 /\ line = NoLine /\ result.kind = "pending"
        /\ pc = "fault" =>
              /\ fault.kind = "KeyError" /\ fault.at = "build"
              /\ \E i \in 1..Len(input.fixed_classes) :
                    /\ fault.key = input.fixed_classes[i]
                    /\ ~ NamesVariable(input.fixed_classes[i])
                    /\ \A j \in 1..(i - 1) : NamesVariable(input.fixed_classes[j])

C6_Witness ==
    /\ pc = "fault" /\ fault.at = "build"
    /\ Len(input.fixed_classes) = 2
    /\ fault.key = input.fixed_classes[2]

(***************************************************************************)
(* C7 (as claimed): for a subject whose sessions_per_week exceeds          *)
(* |days| x |slots| x |rooms|, the call yields a solution in which the     *)
(* subject's weekly slack is positive and a Subject line names it.  The    *)
(* runs the time limit ends are left aside.                                *)
(***************************************************************************)
C7_OverfullSubjectReported ==
    \A i \in OfKind("Subject") :
        model[i].rhs > Len(days) * Len(slots) * Len(input.rooms) =>
            /\ (pc = "nosolution" /\ status # "UNKNOWN") => status \in OkStatuses
            /\ (Visiting /\ cursor = i) =>
                  /\ val > 0
                  /\ line.kind = "Subject"
                  /\ line.who = slack_vars[i].who
                  /\ line.slack = val

(***************************************************************************)
(* C8: the report loop visits the slack variables one by one, each once,   *)
(* and prints for the one it visits exactly its violation line (kind,      *)
(* entity, time context, magnitude) when the value is positive and nothing *)
(* when it is 0; nothing is printed outside the loop, and the extraction   *)
(* starts only when every slack variable has been visited.                 *)
(***************************************************************************)
C8_ReportComplete ==
    [][ /\ pc' = "report" =>
              /\ pc \in {"solved", "report"}
              /\ cursor' = cursor + 1
              /\ cursor' <= Len(slack_vars)
              /\ val' \in 0..slack_vars[cursor'].ub
              /\ val' > 0 =>
                    /\ line'.kind = slack_vars[cursor'].kind
                    /\ line'.who = slack_vars[cursor'].who
                    /\ line'.when = slack_vars[cursor'].when
                    /\ line'.slack = val'
              /\ val' = 0 => line' = NoLine
        /\ pc' # "report" => cursor' = cursor /\ line' = line
        /\ (pc' = "returned" \/ (pc' = "fault" /\ fault'.at # "build")) =>
              cursor = Len(slack_vars)
        /\ pc \in {"start", "built"} => cursor = 0 /\ line = NoLine
      ]_vars

C8_Witness ==
    /\ pc = "returned"
    /\ cursor = Len(slack_vars)
    /\ line.kind = "FixedClass"
    /\ line.slack = 1

(***************************************************************************)
(* C9: in every accepted solution, for every batch of batches and every    *)
(* (day, slot), there is one batch-clash slack, and the true decision      *)
(* variables of the batch number at most 1 plus its value, a value of 0 or *)
(* 1: never more than two classes, and two only with that slack at 1.      *)
(***************************************************************************)
C9_BatchClashBound ==
    /\ pc = "solved" =>
          \A b \in Range(input.batches), d \in Range(days), s \in Range(slots) :
              /\ Cardinality({i \in OfKind("BatchClash") :
                     slack_vars[i].who = b /\ slack_vars[i].when = <<d, s>>}) = 1
              /\ status \in OkStatuses => ClassesAt(b, d, s) <= 2
    /\ (Visiting /\ slack_vars[cursor].kind = "BatchClash") =>
          LET n == ClassesAt(slack_vars[cursor].who,
                             slack_vars[cursor].when[1], slack_vars[cursor].when[2])
          IN  /\ val \in {0, 1}
              /\ n <= 1 + val
              /\ n = 2 => val = 1 /\ line.kind = "BatchClash"

\* two classes in a slot where the batch has four decision variables
C9_Witness ==
    /\ input \in CrowdedInputs
    /\ Visiting /\ slack_vars[cursor].kind = "BatchClash"
    /\ TableAhead
    /\ ClassesAt(slack_vars[cursor].who,
                 slack_vars[cursor].when[1], slack_vars[cursor].when[2]) = 2
    /\ val = 1

(***************************************************************************)
(* C10 (as claimed): the rows of a returned table are in the order of      *)
(* (Batch, Day, Slot), Day taken in the order of the day grid.             *)
(***************************************************************************)
C10_SortedByDayGrid ==
    pc = "returned" =>
        \A j \in 1..(Len(result.rows) - 1) :
            LET a == result.rows[j]
                b == result.rows[j + 1]
            IN  \/ StrLess(a.Batch, b.Batch)
                \/ a.Batch = b.Batch /\ DayIndex(a.Day) < DayIndex(b.Day)
                \/ a.Batch = b.Batch /\ a.Day = b.Day /\ a.Slot <= b.Slot

=============================================================================
